---- MODULE Spec2Model ----
(***************************************************************************)
(* Model of idle-detector.py: the idle-timeout loop of main(), the wait    *)
(* loop of wait_until_idle(), the inotify handler of EventLogger and the   *)
(* netstat probe, together with their environment (clock, log writer,      *)
(* connections, signals).                                                  *)
(*                                                                         *)
(* Time is counted in ticks; MsPerMinute ticks stand for the 60 * 1000     *)
(* milliseconds of one minute.                                             *)
(***************************************************************************)
EXTENDS Integers, Sequences, FiniteSets, TLC

\* ---------------------------------------------------------------- bounds
MsPerMinute == 2
MaxOptTimeout == 2
MaxTime == 5
MaxConn == 1
MaxLines == 2
MaxPending == 1

\* ------------------------------------------------------------- constants
HeaderLines == 2
FatalExit == 2

ExitStatuses == {0, 1}

VARIABLES
    pc,             \* position of main(): sample0, enter, poll, read, process,
                    \* check, act, except, exited, killed
    exit_status,    \* status passed to exit(), -1 while running
    opt_timeout,    \* idle time in minutes (option -t)
    g_timeout,      \* remaining deadline (global g_timeout)
    time_start,     \* local time_start of wait_until_idle
    now,            \* wall clock, datetime.datetime.now()
    nb_connec,      \* local nb_connec of main
    nb_connec_prev, \* local nb_connec_prev of main
    conn,           \* established connections of the host
    log,            \* lines of the file behind EventLogger.__fd, TRUE = the
                    \* line contains opt_iptables_log_pattern
    cursor,         \* read position of EventLogger.__fd, in lines
    attach,         \* position EventLogger.__init__ sought to (end of file)
    kq,             \* IN_MODIFY events waiting in the inotify descriptor
    eventq,         \* events read by read_events, not yet processed
    rotated,        \* the path opt_iptables_log now names another file
    cmd_running,    \* the shell running opt_command has not returned
    cmd_rc,         \* return value of the subprocess.call before this wait
    invocations,    \* number of subprocess.call(opt_command) so far
    nsamples,       \* number of netstat runs so far
    lastSample,     \* result of the most recent netstat run
    burst,          \* activity lines consumed by the latest process_events
    lastActivity,   \* time the latest activity line of this wait was
                    \* processed, -1 if none
    wokenSince,     \* check_events returned True since lastActivity
    signal_at,      \* pc at which a termination signal arrived, "" if none
    missed,         \* lines written to the path after the rotation, into
                    \* the file the program does not have open
    quietAt,        \* time from which nothing disturbs the host, -1 while
                    \* the host is not known to stay quiet
    quietChecks,    \* netstat runs of the loop since quietAt
    quietActs       \* commands started since quietAt

vars == <<pc, exit_status, opt_timeout, g_timeout, time_start, now, nb_connec,
          nb_connec_prev, conn, log, cursor, attach, kq, eventq, rotated,
          cmd_running, cmd_rc, invocations, nsamples, lastSample, burst,
          lastActivity, wokenSince, signal_at, missed, quietAt, quietChecks,
          quietActs>>

\* from quietAt on: no log line, no connection change, no error, no signal
Quiet == quietAt >= 0

\* The idle period of the specification, in ticks.
IdlePeriod == opt_timeout * MsPerMinute

Running == pc \notin {"exited", "killed"}

\* ------------------------------------------------------------ operators

FullTimeoutMinutes(timeout) == timeout

\* wait_until_idle: g_timeout = timeout * 60 * 1000
FullTimeout(timeout) == timeout * MsPerMinute

LineEffectKeep(g, line) == g

LineEffectAdditive(g, line) ==
    IF line THEN g + opt_timeout * MsPerMinute ELSE g

\* process_IN_MODIFY, body of the while loop: one line of the log
LineEffect(g, line) == IF line THEN FullTimeout(opt_timeout) ELSE g

RECURSIVE process_IN_MODIFY(_, _)
\* reads lines from the descriptor until readline returns ""
process_IN_MODIFY(g, cur) ==
    IF cur >= Len(log)
    THEN [g |-> g, cur |-> cur]
    ELSE process_IN_MODIFY(LineEffect(g, log[cur + 1]), cur + 1)

RECURSIVE process_events(_, _, _)
\* Notifier.process_events: the handler is called once per queued event
process_events(n, g, cur) ==
    IF n = 0
    THEN [g |-> g, cur |-> cur]
    ELSE LET r == process_IN_MODIFY(g, cur)
         IN  process_events(n - 1, r.g, r.cur)

\* activity lines that n handler calls consume from position cur
Consumed(n, cur) ==
    IF n = 0 THEN 0
    ELSE Cardinality({i \in (cur + 1)..Len(log) : log[i]})

\* number of lines netstat --protocol=inet may print: two header lines and
\* one line per connection, or nothing when it fails
NetstatOutputs(c) ==
    IF Quiet THEN {c + HeaderLines} ELSE {c + HeaderLines, 0}

\* nb_established_connections: return i - 2
nb_established_connections(lines) == lines - 2

DecrementAlways(g, t) == g - t

\* wait_until_idle: if t < g_timeout: g_timeout -= t
Decrement(g, t) == IF t < g THEN g - t ELSE g

PrevBaselineStale(old, sampled) ==
    IF nsamples = 1 THEN old ELSE nb_connec_prev

PrevBaselineCurrent(old, sampled) == sampled

\* main: nb_connec_prev = nb_connec, before the new sample is taken
PrevBaseline(old, sampled) == old

GateEither(prev, cur) == (prev = 0) \/ (cur = 0)

\* main: if (nb_connec_prev == 0) and (nb_connec == 0)
Gate(prev, cur) == (prev = 0) /\ (cur = 0)

AfterCommandChecked(rc) == IF rc = 0 THEN "enter" ELSE "exited"

\* main: subprocess.call returns, its value is dropped, the loop goes on
AfterCommand(rc) == "enter"

AfterInvokeAsync == "enter"

\* main: subprocess.call blocks until the command has completed
AfterInvoke == "act"

\* ----------------------------------------------------------------- Init
Init ==
    /\ pc = "sample0"
    /\ exit_status = -1
    /\ opt_timeout \in 1..MaxOptTimeout
    /\ g_timeout = 0
    /\ time_start = 0
    /\ now = 0
    /\ nb_connec = -1
    /\ nb_connec_prev = -1
    /\ conn \in 0..MaxConn
    /\ log \in {<<>>, <<TRUE>>}
    /\ cursor = Len(log)
    /\ attach = Len(log)
    /\ kq = 0
    /\ eventq = 0
    /\ rotated = FALSE
    /\ cmd_running = FALSE
    /\ cmd_rc = 0
    /\ invocations = 0
    /\ nsamples = 0
    /\ lastSample = -1
    /\ burst = 0
    /\ lastActivity = -1
    /\ wokenSince = FALSE
    /\ signal_at = ""
    /\ missed = 0
    /\ quietAt = -1
    /\ quietChecks = 0
    /\ quietActs = 0

\* ------------------------------------------------------- program actions

\* main: nb_connec = nb_established_connections(), before the loop
Sample0 ==
    /\ pc = "sample0"
    /\ \E lines \in NetstatOutputs(conn) :
         /\ nb_connec' = nb_established_connections(lines)
         /\ lastSample' = nb_established_connections(lines)
    /\ nsamples' = nsamples + 1
    /\ pc' = "enter"
    /\ UNCHANGED <<missed, quietAt, quietChecks, quietActs, attach,
                   exit_status, opt_timeout, g_timeout, time_start, now,
                   nb_connec_prev, conn, log, cursor, kq, eventq, rotated,
                   cmd_running, cmd_rc, invocations, burst,
                   lastActivity, wokenSince, signal_at>>

\* wait_until_idle, up to the first check_events
Enter ==
    /\ pc = "enter"
    /\ LET r == process_events(eventq, FullTimeout(opt_timeout), cursor)
       IN  /\ g_timeout' = r.g
           /\ cursor' = r.cur
    /\ eventq' = 0
    /\ time_start' = now
    /\ burst' = 0
    /\ lastActivity' = -1
    /\ wokenSince' = FALSE
    /\ pc' = "poll"
    /\ UNCHANGED <<missed, quietAt, quietChecks, quietActs, attach,
                   exit_status, opt_timeout, now, nb_connec, nb_connec_prev,
                   conn, log, kq, rotated, cmd_running, cmd_rc,
                   invocations, nsamples, lastSample, signal_at>>

\* check_events(g_timeout) returns True: an event is readable
PollEvents ==
    /\ pc = "poll"
    /\ kq > 0
    /\ pc' = "read"
    /\ UNCHANGED <<missed, quietAt, quietChecks, quietActs, attach,
                   exit_status, opt_timeout, g_timeout, time_start, now,
                   nb_connec, nb_connec_prev, conn, log, cursor, kq, eventq,
                   rotated, cmd_running, cmd_rc, invocations,
                   nsamples, lastSample, burst, lastActivity, wokenSince,
                   signal_at>>

\* check_events(g_timeout) returns False: g_timeout went by without an event
PollTimeout ==
    /\ pc = "poll"
    /\ kq = 0
    /\ now - time_start >= g_timeout
    /\ pc' = "check"
    /\ UNCHANGED <<missed, quietAt, quietChecks, quietActs, attach,
                   exit_status, opt_timeout, g_timeout, time_start, now,
                   nb_connec, nb_connec_prev, conn, log, cursor, kq, eventq,
                   rotated, cmd_running, cmd_rc, invocations,
                   nsamples, lastSample, burst, lastActivity, wokenSince,
                   signal_at>>

\* loop body: read_events, t = now - time_start, if t < g_timeout: g_timeout -= t
Read ==
    /\ pc = "read"
    /\ eventq' = eventq + kq
    /\ kq' = 0
    /\ LET t == now - time_start
       IN  g_timeout' = Decrement(g_timeout, t)
    /\ wokenSince' = TRUE
    /\ pc' = "process"
    /\ UNCHANGED <<missed, quietAt, quietChecks, quietActs, attach,
                   exit_status, opt_timeout, time_start, now, nb_connec,
                   nb_connec_prev, conn, log, cursor, rotated, cmd_running, cmd_rc, invocations, nsamples, lastSample,
                   burst, lastActivity, signal_at>>

ProcessSampling ==
    /\ pc = "process"
    /\ LET r == process_events(eventq, g_timeout, cursor)
           n == Consumed(eventq, cursor)
       IN  /\ g_timeout' = r.g
           /\ cursor' = r.cur
           /\ burst' = n
           /\ lastActivity' = IF n > 0 THEN now ELSE lastActivity
           /\ wokenSince' = IF n > 0 THEN FALSE ELSE wokenSince
           /\ nb_connec' = IF n > 0 THEN conn ELSE nb_connec
           /\ lastSample' = IF n > 0 THEN conn ELSE lastSample
    /\ eventq' = 0
    /\ time_start' = now
    /\ pc' = "poll"
    /\ UNCHANGED <<missed, quietAt, quietChecks, quietActs, attach,
                   exit_status, opt_timeout, now, nb_connec_prev, conn, log,
                   kq, rotated, cmd_running, cmd_rc, invocations, nsamples,
                   signal_at>>

\* loop body: process_events, time_start = now
Process ==
    /\ pc = "process"
    /\ LET r == process_events(eventq, g_timeout, cursor)
           n == Consumed(eventq, cursor)
       IN  /\ g_timeout' = r.g
           /\ cursor' = r.cur
           /\ burst' = n
           /\ lastActivity' = IF n > 0 THEN now ELSE lastActivity
           /\ wokenSince' = IF n > 0 THEN FALSE ELSE wokenSince
    /\ eventq' = 0
    /\ time_start' = now
    /\ pc' = "poll"
    /\ UNCHANGED <<missed, quietAt, quietChecks, quietActs, attach,
                   exit_status, opt_timeout, now, nb_connec, nb_connec_prev,
                   conn, log, kq, rotated, cmd_running, cmd_rc,
                   invocations, nsamples, lastSample, signal_at>>

\* main, after wait_until_idle returned: the sample, the test, the call
Check ==
    /\ pc = "check"
    /\ \E lines \in NetstatOutputs(conn) :
         LET sampled == nb_established_connections(lines)
             prev == PrevBaseline(nb_connec, sampled)
         IN  /\ nb_connec_prev' = prev
             /\ nb_connec' = sampled
             /\ lastSample' = sampled
             /\ IF Gate(prev, sampled)
                THEN /\ pc' = AfterInvoke
                     /\ cmd_running' = TRUE
                     /\ invocations' = invocations + 1
                     /\ quietActs' = IF Quiet THEN quietActs + 1 ELSE 0
                ELSE /\ pc' = "enter"
                     /\ UNCHANGED <<cmd_running, invocations, quietActs>>
    /\ nsamples' = nsamples + 1
    /\ quietChecks' = IF Quiet THEN quietChecks + 1 ELSE 0
    /\ cmd_rc' = 0
    /\ UNCHANGED <<missed, quietAt, attach,
                   exit_status, opt_timeout, g_timeout, time_start, now, conn,
                   log, cursor, kq, eventq, rotated, burst,
                   lastActivity, wokenSince, signal_at>>

\* subprocess.call(opt_command, shell=True) returns
CommandDone ==
    /\ pc = "act"
    /\ cmd_running
    /\ \E rc \in ExitStatuses :
         /\ cmd_rc' = rc
         /\ pc' = AfterCommand(rc)
         /\ exit_status' = IF AfterCommand(rc) = "exited" THEN 1
                           ELSE exit_status
    /\ cmd_running' = FALSE
    /\ UNCHANGED <<missed, quietAt, quietChecks, quietActs, attach,
                   opt_timeout, g_timeout, time_start, now, nb_connec,
                   nb_connec_prev, conn, log, cursor, kq, eventq, rotated,
                   invocations, nsamples, lastSample, burst,
                   lastActivity, wokenSince, signal_at>>

\* an exception is raised inside wait_until_idle (poll, read or readline)
WatcherError ==
    /\ pc \in {"poll", "read", "process"}
    /\ ~Quiet
    /\ pc' = "except"
    /\ UNCHANGED <<missed, quietAt, quietChecks, quietActs, attach,
                   exit_status, opt_timeout, g_timeout, time_start, now,
                   nb_connec, nb_connec_prev, conn, log, cursor, kq, eventq,
                   rotated, cmd_running, cmd_rc, invocations,
                   nsamples, lastSample, burst, lastActivity, wokenSince,
                   signal_at>>

HandleErrorSwallow ==
    /\ pc = "except"
    /\ pc' = "check"
    /\ UNCHANGED <<missed, quietAt, quietChecks, quietActs, attach,
                   exit_status, opt_timeout, g_timeout, time_start, now,
                   nb_connec, nb_connec_prev, conn, log, cursor, kq, eventq,
                   rotated, cmd_running, cmd_rc, invocations, nsamples,
                   lastSample, burst, lastActivity, wokenSince, signal_at>>

\* except Exception as err: print err; notifier.stop(); exit(2)
HandleError ==
    /\ pc = "except"
    /\ pc' = "exited"
    /\ exit_status' = FatalExit
    /\ UNCHANGED <<missed, quietAt, quietChecks, quietActs, attach,
                   opt_timeout, g_timeout, time_start, now, nb_connec,
                   nb_connec_prev, conn, log, cursor, kq, eventq, rotated,
                   cmd_running, cmd_rc, invocations, nsamples,
                   lastSample, burst, lastActivity, wokenSince, signal_at>>

TerminateInterrupts ==
    /\ pc \notin {"exited", "killed"}
    /\ signal_at = ""
    /\ signal_at' = pc
    /\ pc' = IF pc = "poll" THEN "check" ELSE "killed"
    /\ UNCHANGED <<missed, quietAt, quietChecks, quietActs, attach,
                   exit_status, opt_timeout, g_timeout, time_start, now,
                   nb_connec, nb_connec_prev, conn, log, cursor, kq, eventq,
                   rotated, cmd_running, cmd_rc, invocations, nsamples,
                   lastSample, burst, lastActivity, wokenSince>>

\* a termination signal: no handler is installed and KeyboardInterrupt is not
\* an Exception, so the process ends wherever it is
Terminate ==
    /\ Running
    /\ ~Quiet
    /\ signal_at = ""
    /\ signal_at' = pc
    /\ pc' = "killed"
    /\ UNCHANGED <<missed, quietAt, quietChecks, quietActs, attach,
                   exit_status, opt_timeout, g_timeout, time_start, now,
                   nb_connec, nb_connec_prev, conn, log, cursor, kq, eventq,
                   rotated, cmd_running, cmd_rc, invocations,
                   nsamples, lastSample, burst, lastActivity, wokenSince>>

\* --------------------------------------------------- environment actions

\* the clock advances while the program blocks in poll, is not yet
\* scheduled after poll returned, or waits for the command
Tick ==
    /\ now < MaxTime
    /\ \/ pc = "poll" /\ kq = 0 /\ now - time_start < g_timeout
       \/ pc = "read" /\ now - time_start <= g_timeout
       \/ pc = "act"
    /\ now' = now + 1
    /\ UNCHANGED <<missed, quietAt, quietChecks, quietActs, attach,
                   pc, exit_status, opt_timeout, g_timeout, time_start,
                   nb_connec, nb_connec_prev, conn, log, cursor, kq, eventq,
                   rotated, cmd_running, cmd_rc, invocations,
                   nsamples, lastSample, burst, lastActivity, wokenSince,
                   signal_at>>

\* the kernel logger appends a line to the path opt_iptables_log; after a
\* rotation the line goes to a file the program neither reads nor watches
AppendLine(m) ==
    /\ Running
    /\ ~Quiet
    /\ Len(log) + missed < MaxLines
    /\ IF rotated
       THEN /\ missed' = missed + 1
            /\ UNCHANGED <<log, kq>>
       ELSE /\ log' = Append(log, m)
            /\ kq' = IF kq < MaxPending THEN kq + 1 ELSE kq
            /\ UNCHANGED missed
    /\ UNCHANGED <<quietAt, quietChecks, quietActs, attach,
                   pc, exit_status, opt_timeout, g_timeout, time_start, now,
                   nb_connec, nb_connec_prev, conn, cursor, eventq, rotated,
                   cmd_running, cmd_rc, invocations, nsamples, lastSample,
                   burst, lastActivity, wokenSince, signal_at>>

\* the log is rotated: the path names a new file, the descriptor opened in
\* EventLogger.__init__ and the watch added in main keep the old one
Rotate ==
    /\ Running
    /\ ~Quiet
    /\ ~rotated
    /\ rotated' = TRUE
    /\ UNCHANGED <<missed, quietAt, quietChecks, quietActs, attach,
                   pc, exit_status, opt_timeout, g_timeout, time_start, now,
                   nb_connec, nb_connec_prev, conn, log, cursor, kq, eventq,
                   cmd_running, cmd_rc, invocations, nsamples,
                   lastSample, burst, lastActivity, wokenSince, signal_at>>

\* connections are established and closed
ConnChange(c) ==
    /\ Running
    /\ ~Quiet
    /\ c # conn
    /\ conn' = c
    /\ UNCHANGED <<missed, quietAt, quietChecks, quietActs, attach,
                   pc, exit_status, opt_timeout, g_timeout, time_start, now,
                   nb_connec, nb_connec_prev, log, cursor, kq, eventq,
                   rotated, cmd_running, cmd_rc, invocations,
                   nsamples, lastSample, burst, lastActivity, wokenSince,
                   signal_at>>

Next ==
    \/ Sample0
    \/ Enter
    \/ PollEvents
    \/ PollTimeout
    \/ Read
    \/ Process
    \/ Check
    \/ CommandDone
    \/ WatcherError
    \/ HandleError
    \/ Terminate
    \/ Tick
    \/ \E m \in BOOLEAN : AppendLine(m)
    \/ Rotate
    \/ \E c \in 0..MaxConn : ConnChange(c)

Spec == Init /\ [][Next]_vars

\* the host falls quiet: from now on the log is not written, the connection
\* count stays 0, netstat and the watcher do not fail, no signal arrives
StartQuiet ==
    /\ pc \notin {"except", "exited", "killed"}
    /\ ~Quiet
    /\ conn = 0
    /\ quietAt' = now
    /\ quietChecks' = 0
    /\ quietActs' = 0
    /\ UNCHANGED <<missed, attach, pc, exit_status, opt_timeout, g_timeout,
                   time_start, now, nb_connec, nb_connec_prev, conn, log,
                   cursor, kq, eventq, rotated, cmd_running, cmd_rc,
                   invocations, nsamples, lastSample, burst, lastActivity,
                   wokenSince, signal_at>>

QuietNext ==
    \/ Next
    \/ StartQuiet

\* the program in an environment that may fall quiet for good
QuietSpec == Init /\ [][QuietNext]_vars

TypeOK ==
    /\ pc \in {"sample0", "enter", "poll", "read", "process", "check", "act",
               "except", "exited", "killed"}
    /\ g_timeout \in 0..(MaxOptTimeout * MsPerMinute)
    /\ now \in 0..MaxTime
    /\ cursor \in 0..Len(log)
    /\ kq \in 0..MaxPending

\* ------------------------------------------------------------ properties

\* no line has been appended to the log since the watcher was attached
NoActivity == Len(log) = attach

\* the step that leaves wait_until_idle's first lines arms one full period
ArmsFullPeriod ==
    (pc = "enter" /\ pc' = "poll") =>
        (g_timeout' = IdlePeriod /\ time_start' = now)

\* C1: the command is started exactly when the sample taken before the wait
\* cycle and the sample taken after it are both 0; the second sample is only
\* taken once the last check_events ran to its timeout without an event; a
\* zero at one end only never starts the command.
C1_DoubleConfirmation ==
    /\ [](pc = "check" => now - time_start >= g_timeout)
    /\ [][(pc = "check" /\ pc' \notin {"check", "killed"}) =>
            /\ (pc' = "act" /\ invocations' = invocations + 1)
                 <=> (lastSample = 0 /\ lastSample' = 0)
            /\ (pc' # "act" => invocations' = invocations)]_vars
    /\ [][invocations' # invocations => pc = "check"]_vars

C1_Witness ==
    /\ pc = "act"
    /\ invocations = 1
    /\ nb_connec_prev = 0
    /\ nb_connec = 0
    /\ lastSample = 0

\* C2: when the wait ends, at least one idle period has gone by since the
\* latest activity line was processed, and exactly one idle period when
\* check_events did not return True again after it.
C2_ElapsedAccounting ==
    (pc = "check" /\ lastActivity >= 0) =>
        /\ now - lastActivity >= IdlePeriod
        /\ (~wokenSince => now - lastActivity = IdlePeriod)

\* the first wait began at 0, was interrupted by activity at 1 and ended
\* one idle period later
C2_Witness ==
    /\ pc = "check"
    /\ nsamples = 1
    /\ lastActivity = 1
    /\ ~wokenSince
    /\ now = 1 + IdlePeriod

\* C3: after one or more activity lines were processed the deadline is
\* exactly one idle period, and the deadline is never larger than that.
C3_ResetIdempotent ==
    /\ g_timeout <= IdlePeriod
    /\ (pc = "poll" /\ burst >= 1) => g_timeout = IdlePeriod

C3_Witness ==
    /\ pc = "poll"
    /\ burst >= 2
    /\ g_timeout = IdlePeriod

\* C4: started with a sample of 0 and no activity, the first wait ends at
\* exactly one idle period, a second sample of 0 then starts the command
\* once, nothing starts it earlier, and when the command returns a new wait
\* is armed with one full idle period.
C4_StartupBaseline ==
    /\ [](now < IdlePeriod => invocations = 0)
    /\ []((pc = "check" /\ nsamples = 1 /\ NoActivity) => now = IdlePeriod)
    /\ [][(pc = "check" /\ nsamples = 1 /\ nsamples' = 2
             /\ lastSample = 0 /\ lastSample' = 0) =>
            (pc' = "act" /\ invocations' = 1)]_vars
    /\ [][(pc = "act" /\ pc' \notin {"act", "killed"}) => pc' = "enter"]_vars
    /\ [][ArmsFullPeriod]_vars

C4_Witness ==
    /\ pc = "poll"
    /\ NoActivity
    /\ nsamples = 2
    /\ invocations = 1
    /\ g_timeout = IdlePeriod
    /\ time_start >= IdlePeriod
    /\ time_start = now

\* C5: once an exception has left wait_until_idle, the only step the program
\* takes is the exit with status 2; the command is not started and netstat is
\* not run from then on.
C5_WatcherFailure ==
    /\ [][pc = "except" =>
            /\ pc' \in {"except", "exited", "killed"}
            /\ (pc' = "exited" => exit_status' = FatalExit)
            /\ invocations' = invocations
            /\ nsamples' = nsamples]_vars
    /\ [][pc = "exited" =>
            /\ pc' = "exited"
            /\ exit_status' = exit_status
            /\ invocations' = invocations
            /\ nsamples' = nsamples]_vars

C5_Witness ==
    /\ pc = "exited"
    /\ exit_status = FatalExit
    /\ signal_at = ""

\* C6: when the sample from the start of the cycle is not 0, the check does
\* not start the command, whatever the new sample is, and the next wait is
\* armed with one full idle period.
C6_NonZeroStart ==
    /\ [][(pc = "check" /\ lastSample # 0 /\ pc' \notin {"check", "killed"}) =>
            /\ pc' = "enter"
            /\ invocations' = invocations
            /\ cmd_running' = cmd_running]_vars
    /\ [][(pc = "enter" /\ pc' = "poll") => g_timeout' = IdlePeriod]_vars

C6_Witness ==
    /\ pc = "enter"
    /\ nb_connec_prev = MaxConn
    /\ nb_connec = 0
    /\ nsamples = 2
    /\ invocations = 0

\* C7: once the log has been rotated away the command is never started.
C7_RotationIsFatal == [][rotated => invocations' = invocations]_vars

\* C8: a termination signal ends the program wherever it is, a wait in
\* progress included, and the command is not started after it.
C8_CleanShutdown ==
    /\ [](signal_at # "" => pc = "killed")
    /\ [][signal_at # "" =>
            (invocations' = invocations /\ nsamples' = nsamples)]_vars

C8_Witness ==
    /\ pc = "killed"
    /\ signal_at = "poll"
    /\ now - time_start < g_timeout

\* C9: while the command runs the loop stays at the call: the deadline and
\* the start of the wait are not touched and netstat is not run; when the
\* command returns the loop enters a wait armed with one full idle period.
C9_ActingSynchronous ==
    /\ [](cmd_running => pc \in {"act", "killed"})
    /\ [][cmd_running =>
            /\ g_timeout' = g_timeout
            /\ time_start' = time_start
            /\ nsamples' = nsamples]_vars
    /\ [][(cmd_running /\ ~cmd_running') => pc' = "enter"]_vars
    /\ [][(pc = "enter" /\ pc' \notin {"enter", "killed"}) =>
            (pc' = "poll" /\ g_timeout' = IdlePeriod)]_vars

C9_Witness ==
    /\ pc = "act"
    /\ cmd_running
    /\ now > time_start + g_timeout

\* C10: whatever status the command returns, the program does not exit, the
\* connection baseline is left as it was and the next wait is armed with one
\* full idle period.
C10_StatusIgnored ==
    /\ [][(cmd_running /\ ~cmd_running') =>
            /\ pc' = "enter"
            /\ exit_status' = exit_status
            /\ nb_connec' = nb_connec
            /\ nb_connec_prev' = nb_connec_prev]_vars
    /\ [][(pc = "enter" /\ pc' = "poll") =>
            /\ g_timeout' = IdlePeriod
            /\ nb_connec' = nb_connec
            /\ nb_connec_prev' = nb_connec_prev]_vars
    /\ [](pc = "exited" => exit_status = FatalExit)

C10_Witness ==
    /\ pc = "poll"
    /\ cmd_rc = 1
    /\ invocations >= 1
    /\ g_timeout = IdlePeriod
    /\ time_start = now
    /\ nb_connec = 0

\* the positions of main inside wait_until_idle
InWait == pc \in {"enter", "poll", "read", "process"}

\* C11: no line written before the watcher was attached is examined, and
\* whenever the loop waits with no event pending every line written to the
\* log since then has been examined, none of them lost.
C11_ReadCursor ==
    /\ attach <= cursor
    /\ cursor <= Len(log)
    /\ (pc = "poll" /\ kq = 0) => (cursor = Len(log) /\ missed = 0)

\* C12: netstat is run once at start and once in every check after a
\* completed wait, and nowhere else; inside the wait no sample is taken and
\* nb_connec keeps its value, also when activity resets the deadline.
C12_SamplesAtBoundaries ==
    /\ [](nsamples = 0 <=> (pc = "sample0" \/ signal_at = "sample0"))
    /\ [][nsamples' # nsamples =>
            (pc \in {"sample0", "check"} /\ nsamples' = nsamples + 1)]_vars
    /\ [][(pc \in {"sample0", "check"} /\ pc' \notin {pc, "killed"}) =>
            nsamples' = nsamples + 1]_vars
    /\ [][InWait =>
            (nb_connec' = nb_connec /\ lastSample' = lastSample)]_vars

\* activity was processed in the first wait while a connection was open:
\* the baseline is still the 0 sampled at start
C12_Witness ==
    /\ pc = "poll"
    /\ burst >= 1
    /\ nsamples = 1
    /\ nb_connec = 0
    /\ conn = 1

\* C13: every result of the probe is a non-negative integer.
C13_ProbeNonNegative == nsamples > 0 => lastSample >= 0

\* C14: a wait that was interrupted only by lines without the pattern ends
\* exactly one idle period after the deadline was last armed or reset.
C14_NoTimeLeak ==
    /\ (pc = "check" /\ lastActivity >= 0) => now - lastActivity = IdlePeriod
    /\ (pc = "check" /\ lastActivity = -1 /\ nsamples = 1) => now = IdlePeriod

\* C15: inside the wait the deadline is positive and at most one idle
\* period, it only grows when an activity line resets it, and check_events
\* never blocks longer than the deadline.
C15_DeadlineInvariant ==
    /\ [](pc \in {"poll", "read", "process"} =>
            (0 < g_timeout /\ g_timeout <= IdlePeriod))
    /\ [](pc = "poll" => now - time_start <= g_timeout)
    /\ [][(pc \in {"poll", "read", "process"} /\ g_timeout' > g_timeout) =>
            (pc = "process" /\ burst' >= 1 /\ g_timeout' = IdlePeriod)]_vars

\* a decremented deadline that has been waited out
C15_Witness ==
    /\ pc = "poll"
    /\ 0 < g_timeout
    /\ g_timeout < IdlePeriod
    /\ now - time_start = g_timeout

\* C16: every check, whether it starts the command or not, compares the new
\* sample with the sample of the check (or start) before it and leaves the
\* new sample as the baseline of the next check.
C16_BaselineUpdate ==
    /\ [](nsamples > 0 => nb_connec = lastSample)
    /\ [][(pc = "check" /\ pc' \notin {"check", "killed"}) =>
            (nb_connec_prev' = lastSample /\ nb_connec' = lastSample')]_vars
    /\ [][pc # "check" => nb_connec_prev' = nb_connec_prev]_vars

\* the check after a check that started the command
C16_Witness ==
    /\ pc = "enter"
    /\ nsamples = 3
    /\ invocations = 1
    /\ nb_connec_prev = 0
    /\ nb_connec = 1

\* C17: when the command is started no activity line of the log is
\* unexamined; a line written after the last check_events timed out either
\* prevents the start or cannot occur.
C17_NoFreshActivity ==
    [][invocations' > invocations =>
         \A i \in (cursor + 1)..Len(log) : ~log[i]]_vars

\* C18 as stated: no activity reset of the deadline lies between the two
\* samples that start the command.
C18_StartSampleAfterReset ==
    [][invocations' > invocations => lastActivity = -1]_vars

\* C18 amended: the start sample compared when the command is started is the
\* sample of the previous cycle boundary, taken before the wait began and so
\* before every reset of that wait; no sample is taken inside the wait.
C18_StartSampleBeforeWait ==
    /\ [][invocations' > invocations =>
            (nb_connec_prev' = lastSample /\ nsamples' = nsamples + 1)]_vars
    /\ [][InWait => (lastSample' = lastSample /\ nsamples' = nsamples)]_vars
    /\ [][lastActivity' > lastActivity => pc = "process"]_vars

\* the command was started although activity reset the deadline in the wait
C18_Witness ==
    /\ pc = "act"
    /\ invocations = 1
    /\ lastActivity >= 0
    /\ nb_connec_prev = 0

\* C19 as stated: once the host is quiet the command is started within two
\* idle periods.
C19_TwoPeriods ==
    (Quiet /\ now - quietAt > 2 * IdlePeriod) => quietActs >= 1

\* C19 amended: once the host is quiet every check but the first starts the
\* command, so it is started by the second completed wait at the latest and
\* after every completed wait from then on; a wait without an event lasts
\* exactly one idle period.
C19_TwoWaits ==
    /\ Quiet => quietActs >= quietChecks - 1
    /\ (Quiet /\ pc = "check" /\ ~wokenSince /\ lastActivity = -1) =>
           now - time_start = IdlePeriod

\* the first check after the host fell quiet found a non-zero baseline, the
\* second one started the command
C19_Witness ==
    /\ Quiet
    /\ pc = "act"
    /\ quietChecks = 2
    /\ quietActs = 1
====
